---- MODULE Spec2Model ----
(***************************************************************************)
(* A model of rogue-gym: the configuration validation and runtime builder  *)
(* (rogue-gym-core/src/lib.rs), the item handler (item/mod.rs), the        *)
(* coordinate/direction iterator (dungeon/coord.rs) and the terminal front *)
(* end's play loop (devui/src/lib.rs).                                     *)
(***************************************************************************)
EXTENDS Integers, Sequences, FiniteSets, TLC

VARIABLES
    \* ---- GameConfig::build ----
    cfg,            \* the GameConfig build() consumes
    pc,             \* position of build(): start, to_inner, new_item, dungeon, assemble, done, failed, dropped
    inner,          \* result of to_inner(): [ok, val] / [ok, err], NoResult before the call
    created,        \* components constructed so far, in construction order
    strong,         \* cell name -> set of holders of a strong (Rc) reference
    weak,           \* cell name -> set of holders of a Weak reference
    entropyDraws,   \* number of values drawn from the entropy source (rng::gen_seed)
    passed,         \* seeds handed on by build(): [item, dungeon], each an Option
    buildResult,    \* what build() returned: NoResult, [ok |-> TRUE, ...] or [ok |-> FALSE, err]
    \* ---- ItemHandler ----
    handler,        \* the ItemHandler: [items, placed_items, config, rng, next_id]
    issued,         \* ids returned by gen_item so far, in order
    lastCall,       \* the last operation on the handler, with the state before it
    \* ---- two builds of one GameConfig ----
    dcfg,           \* the GameConfig both builds consume
    runA, runB,     \* per build: [built, item_seed, dungeon_seed, handler]
    \* ---- serde round trip ----
    sc,             \* the GameConfig to serialize
    json,           \* the serialized document (field name -> value), NoDoc before
    back,           \* the deserialized GameConfig, NoResult before
    \* ---- DirectionIterEndless ----
    start,          \* the coordinate endless_iter was called on
    dir,            \* its direction
    cur,            \* DirectionIterEndless.cur
    produced,       \* the elements next() has returned, in order
    iterState,      \* running, or panicked (overflow with overflow checks on)
    \* ---- devui::play_game ----
    uiState,        \* running, exit_ok (returned Ok(())), exit_err (returned Err)
    exitCause,      \* none, quit, eof, or the call whose failure ended play_game
    keysRead,       \* events taken from stdin.keys()
    keysPassed,     \* keys handed to runtime.react_to_key
    lastEvent,      \* how the last event went: start, key_err, input_err, ok
    turn,           \* the reactions the runtime returned for the current key
    turnLog,        \* the reactions of this turn handed to process_reaction, in order
    player_cursor,  \* play_game's player_cursor: an Option<Coord>
    shown,          \* the message last put on the screen by notify!, an Option
    errTurns        \* turns in which the runtime returned an error

buildVars == <<cfg, pc, inner, created, strong, weak, entropyDraws, passed, buildResult>>
itemVars == <<handler, issued, lastCall>>
detVars == <<dcfg, runA, runB>>
serdeVars == <<sc, json, back>>
coordVars == <<start, dir, cur, produced, iterState>>
uiVars == <<uiState, exitCause, keysRead, keysPassed, lastEvent, turn, turnLog,
            player_cursor, shown, errTurns>>
vars == <<buildVars, itemVars, detVars, serdeVars, coordVars, uiVars>>

(***************************************************************************)
(* Option<T>: None is the empty sequence, Some(x) the one-element sequence *)
(***************************************************************************)
None == <<>>
Some(x) == <<x>>
NoResult == [ok |-> FALSE, none |-> TRUE]

(***************************************************************************)
(* Bounds of the model                                                     *)
(***************************************************************************)
Slack == 2          \* how far around each limit the widths/heights are drawn
MaxSeed == 2        \* seeds are drawn from 0..MaxSeed
MaxOps == 4         \* operations on one ItemHandler
MaxLevel == 2       \* dungeon levels 1..MaxLevel
MaxPath == 2        \* dungeon paths 1..MaxPath
MaxSteps == 3       \* calls of DirectionIterEndless::next
MaxKeys == 3        \* events play_game takes from stdin
MaxReactions == 2   \* reactions the runtime returns for one key

Seeds == 0..MaxSeed

(***************************************************************************)
(* GameConfig validation: lib.rs 80-105                                    *)
(***************************************************************************)
MIN_WIDTH == 80
MAX_WIDTH == MIN_WIDTH * 2
MIN_HEIGHT == 24
MAX_HEIGHT == MIN_HEIGHT * 2

\* ErrorId::InvalidSetting.into_with(msg); the message is kept as its words
InvalidSetting(msg) == [kind |-> "InvalidSetting", msg |-> msg, context |-> <<>>]

\* chain_err: wrap an error with a context string
chain_err(e, ctx) == [e EXCEPT !.context = Append(@, ctx)]

\* a faulty variant of validate: the upper limits are taken as exclusive
validate_exclusive(w, h) ==
    IF w < MIN_WIDTH THEN Some(InvalidSetting(<<"screen", "width", "is", "too", "narrow">>))
    ELSE IF w >= MAX_WIDTH THEN Some(InvalidSetting(<<"screen", "width", "is", "too", "wide">>))
    ELSE IF h < MIN_HEIGHT THEN Some(InvalidSetting(<<"screen", "height", "is", "too", "narrow">>))
    ELSE IF h >= MAX_HEIGHT THEN Some(InvalidSetting(<<"screen", "height", "is", "too", "wide">>))
    ELSE None

\* the four checks of to_inner, in order; None when all pass
validate(w, h) ==
    IF w < MIN_WIDTH THEN Some(InvalidSetting(<<"screen", "width", "is", "too", "narrow">>))
    ELSE IF w > MAX_WIDTH THEN Some(InvalidSetting(<<"screen", "width", "is", "too", "wide">>))
    ELSE IF h < MIN_HEIGHT THEN Some(InvalidSetting(<<"screen", "height", "is", "too", "narrow">>))
    ELSE IF h > MAX_HEIGHT THEN Some(InvalidSetting(<<"screen", "height", "is", "too", "wide">>))
    ELSE None

\* a faulty variant of ResolveSeed: the supplied seed is ignored
ResolveSeed_entropy(optSeed, drawn) == drawn

\* self.seed.unwrap_or_else(rng::gen_seed); drawn is what gen_seed would return
ResolveSeed(optSeed, drawn) == IF optSeed = None THEN drawn ELSE optSeed[1]

\* unwrap_or_else calls rng::gen_seed only when the seed is None
DrawsEntropy(optSeed) == optSeed = None

\* GameConfig::to_inner; the seed is resolved before the checks
to_inner(c, drawn) ==
    LET seed == ResolveSeed(c.seed, drawn)
        bad == validate(c.width, c.height)
    IN  IF bad # None
        THEN [ok |-> FALSE, err |-> bad[1]]
        ELSE [ok |-> TRUE, val |-> [width |-> c.width, height |-> c.height, seed |-> seed]]

(***************************************************************************)
(* The inputs: GameConfig values                                           *)
(***************************************************************************)
Around(lo, hi) == ((lo - Slack)..(lo + Slack)) \cup ((hi - Slack)..(hi + Slack))
Widths == Around(MIN_WIDTH, MAX_WIDTH) \cup {MIN_WIDTH \div 2, 0 - 1}
Heights == Around(MIN_HEIGHT, MAX_HEIGHT) \cup {0 - 1}
OptSeeds == {None} \cup {Some(s) : s \in Seeds}
KeyMaps == {"default", "custom"}
OptKeyMaps == {None} \cup {Some(k) : k \in KeyMaps}
\* gold::Config values: [rate_inv, base, per_level, min]
GoldConfigs == {[rate_inv |-> 3, base |-> 2, per_level |-> 1, min |-> 1],
                [rate_inv |-> 1, base |-> 1, per_level |-> 2, min |-> 2]}
ItemConfigs == {[gold |-> g] : g \in GoldConfigs}
\* DungeonStyle values: the fields serde flattens into the document
DungeonStyles == {[style |-> "rogue", room_num_x |-> 3],
                  [style |-> "rogue", room_num_x |-> 4]}
DefaultItemConfig == [gold |-> [rate_inv |-> 3, base |-> 2, per_level |-> 1, min |-> 1]]
DefaultDungeon == [style |-> "rogue", room_num_x |-> 3]
DefaultConfig == [width |-> MIN_WIDTH, height |-> MIN_HEIGHT, seed |-> None,
                  dungeon |-> DefaultDungeon, item |-> DefaultItemConfig,
                  keymap |-> Some("default")]

GameConfigs == [width : Widths, height : Heights, seed : OptSeeds,
                dungeon : DungeonStyles, item : ItemConfigs, keymap : OptKeyMaps]

(***************************************************************************)
(* The random stream and the gold policy (rng.rs, item/gold.rs)            *)
(***************************************************************************)
RngMod == 8
\* RngHandle::from_seed
RngFromSeed(seed) == seed % RngMod
\* one draw advances the stream
RngStep(r) == (5 * r + 3) % RngMod

\* gold::Config::gen(rng, level): [num, rng]; num is None when no gold spawns
GoldGen(g, r, level) ==
    LET r1 == RngStep(r)
        r2 == RngStep(r1)
    IN  IF r1 % g.rate_inv # 0
        THEN [num |-> None, rng |-> r1]
        ELSE [num |-> Some((r2 % (g.base + g.per_level * level)) + g.min), rng |-> r2]

(***************************************************************************)
(* Items: item/mod.rs                                                      *)
(***************************************************************************)
\* ItemAttr::empty() and the flags (bitflags over u32, a set of flags here)
ItemAttr_empty == {}
IS_MANY == "IS_MANY"
ItemAttrFlags == {"IS_CURSED", "CAN_THROW", "IS_MANY"}

\* ItemKind::numbered: only Gold has default attributes, the rest is unimplemented!()
numbered(kind, num) ==
    IF kind = "Gold"
    THEN [kind |-> kind, how_many |-> num, attr |-> ItemAttr_empty]
    ELSE [kind |-> "unimplemented", how_many |-> num, attr |-> ItemAttr_empty]

\* a faulty variant of many: another flag is set
many_throwable(item) == [item EXCEPT !.attr = @ \cup {"CAN_THROW"}]

\* Item::many: self.attr |= ItemAttr::IS_MANY
many(item) == [item EXCEPT !.attr = @ \cup {IS_MANY}]

\* a faulty variant of increment: the id is left as it is
ItemId_stuck(id) == id

\* ItemId::increment: self.0 += 1 (a u32; MaxOps keeps the ids far below 2^32)
ItemId_increment(id) == id + 1

\* ItemHandler::new
ItemHandler_new(config, seed) ==
    [items |-> <<>>, placed_items |-> <<>>, config |-> config,
     rng |-> RngFromSeed(seed), next_id |-> 0]

\* BTreeMap::insert: the new value replaces an old one under the same key
MapInsert(m, k, v) == (k :> v) @@ m

\* ItemHandler::get_ref
get_ref(h, path) ==
    IF path \notin DOMAIN h.placed_items THEN None
    ELSE LET id == h.placed_items[path]
         IN  IF id \in DOMAIN h.items THEN Some(h.items[id]) ELSE None

\* ItemHandler::gen_item: [h, id]
gen_item(h, item) ==
    LET id == h.next_id
    IN  [h |-> [h EXCEPT !.items = MapInsert(@, id, item),
                         !.next_id = ItemId_increment(@)],
         id |-> id]

\* a faulty variant of place_item: the id after the generated one is recorded
place_item_next(h, place, id) ==
    [h EXCEPT !.placed_items = MapInsert(@, place, id + 1)]

\* ItemHandler::place_item
place_item(h, place, id) ==
    [h EXCEPT !.placed_items = MapInsert(@, place, id)]

\* the empty_cell closure's answer: Ok(path) or Err
CellErr == [ok |-> FALSE, err |-> [kind |-> "Index", msg |-> <<>>, context |-> <<>>]]
CellOk(path) == [ok |-> TRUE, val |-> path]

\* a faulty variant of setup_gold: empty_cell is asked before the policy
setup_gold_eager(h, level, cell) ==
    LET g == GoldGen(h.config.gold, h.rng, level)
        h1 == [h EXCEPT !.rng = g.rng]
    IN  IF ~cell.ok
        THEN [h |-> h1, ok |-> FALSE,
              err |-> Some(chain_err(cell.err, "ItemHandler::setup_gold")),
              gen |-> None, num |-> g.num, called |-> TRUE]
        ELSE IF g.num = None
        THEN [h |-> h1, ok |-> TRUE, err |-> None, gen |-> None, num |-> None,
              called |-> TRUE]
        ELSE LET gi == gen_item(h1, many(numbered("Gold", g.num[1])))
             IN  [h |-> place_item(gi.h, cell.val, gi.id), ok |-> TRUE,
                  err |-> None, gen |-> Some(gi.id), num |-> g.num,
                  called |-> TRUE]

\* ItemHandler::setup_gold(level, empty_cell); cell is what empty_cell() answers
\* when it is called.  [h, ok, err, gen, called]: the handler afterwards, the
\* result, the id generated (an Option) and whether empty_cell was called.
setup_gold(h, level, cell) ==
    LET g == GoldGen(h.config.gold, h.rng, level)
        h1 == [h EXCEPT !.rng = g.rng]
    IN  IF g.num = None
        THEN [h |-> h1, ok |-> TRUE, err |-> None, gen |-> None, num |-> None,
              called |-> FALSE]
        ELSE LET gi == gen_item(h1, many(numbered("Gold", g.num[1])))
             IN  IF ~cell.ok
                 THEN [h |-> gi.h, ok |-> FALSE,
                       err |-> Some(chain_err(cell.err, "ItemHandler::setup_gold")),
                       gen |-> Some(gi.id), num |-> g.num, called |-> TRUE]
                 ELSE [h |-> place_item(gi.h, cell.val, gi.id), ok |-> TRUE,
                       err |-> None, gen |-> Some(gi.id), num |-> g.num,
                       called |-> TRUE]

(***************************************************************************)
(* GameConfig::build: lib.rs 106-131, one action per statement             *)
(***************************************************************************)
BuildFrame == UNCHANGED <<itemVars, detVars, serdeVars, coordVars, uiVars>>
CellNames == {"game_info", "config", "item"}
NoCells == [c \in CellNames |-> {}]

\* the locals of build() go out of scope: their strong references are dropped
DropLocals(st) == [c \in CellNames |-> st[c] \ {"build"}]

\* the Dungeon keeps the Rc handles DungeonStyle::build was given (dungeon code)
DungeonKeeps(st) == [c \in CellNames |-> st[c] \cup {"dungeon"}]

\* a faulty variant of RunTimeHolds: the Rc locals are moved into the RunTime
RunTimeHolds_moved(st) == [c \in CellNames |-> (st[c] \ {"build"}) \cup {"runtime"}]

\* the strong holders once RunTime { .. } is returned: the fields are
\* Rc::downgrade(&..) only, and build's locals are dropped
RunTimeHolds(st) == DropLocals(st)

\* the Weak holders once RunTime { .. } is returned
RunTimeObserves == [c \in CellNames |-> {"runtime"}]

BuildInit ==
    /\ cfg \in GameConfigs
    /\ pc = "start"
    /\ inner = NoResult
    /\ created = <<>>
    /\ strong = NoCells
    /\ weak = NoCells
    /\ entropyDraws = 0
    /\ passed = [item |-> None, dungeon |-> None]
    /\ buildResult = NoResult

\* line 107: let game_info = Rc::new(RefCell::new(GameInfo::new()))
BuildNewInfo ==
    /\ pc = "start"
    /\ created' = Append(created, "GameInfo")
    /\ strong' = [strong EXCEPT !["game_info"] = {"build"}]
    /\ pc' = "to_inner"
    /\ UNCHANGED <<cfg, inner, weak, entropyDraws, passed, buildResult>>
    /\ BuildFrame

\* line 108: let config = Rc::new(self.to_inner().chain_err("[GameConfig::build]")?)
BuildToInner ==
    /\ pc = "to_inner"
    /\ \E drawn \in Seeds :
        LET r == to_inner(cfg, drawn) IN
        /\ inner' = r
        /\ entropyDraws' = entropyDraws + (IF DrawsEntropy(cfg.seed) THEN 1 ELSE 0)
        /\ IF r.ok
           THEN /\ created' = Append(created, "ConfigInner")
                /\ strong' = [strong EXCEPT !["config"] = {"build"}]
                /\ pc' = "new_item"
                /\ UNCHANGED buildResult
           ELSE /\ buildResult' = [ok |-> FALSE, err |-> chain_err(r.err, "[GameConfig::build]")]
                /\ strong' = DropLocals(strong)
                /\ pc' = "failed"
                /\ UNCHANGED created
    /\ UNCHANGED <<cfg, weak, passed>>
    /\ BuildFrame

\* lines 110-113: let item = Rc::new(RefCell::new(ItemHandler::new(self.item.clone(), config.seed)))
BuildNewItem ==
    /\ pc = "new_item"
    /\ created' = Append(created, "ItemHandler")
    /\ strong' = [strong EXCEPT !["item"] = {"build"}]
    /\ passed' = [passed EXCEPT !.item = Some(inner.val.seed)]
    /\ pc' = "dungeon"
    /\ UNCHANGED <<cfg, inner, weak, entropyDraws, buildResult>>
    /\ BuildFrame

\* lines 115-122: self.dungeon.build(Rc::clone(&config), Rc::clone(&item),
\* Rc::clone(&game_info), config.seed).chain_err(..)?  The builder is outside
\* this crate's core: it succeeds, keeping the handles it was given, or fails.
BuildDungeon ==
    /\ pc = "dungeon"
    /\ passed' = [passed EXCEPT !.dungeon = Some(inner.val.seed)]
    /\ \E ok \in BOOLEAN :
        IF ok
        THEN /\ created' = Append(created, "Dungeon")
             /\ strong' = DungeonKeeps(strong)
             /\ pc' = "assemble"
             /\ UNCHANGED buildResult
        ELSE /\ buildResult' = [ok |-> FALSE,
                                err |-> chain_err([kind |-> "DungeonBuild", msg |-> <<>>,
                                                   context |-> <<>>], "[GameConfig::build]")]
             /\ strong' = DropLocals(strong)
             /\ pc' = "failed"
             /\ UNCHANGED created
    /\ UNCHANGED <<cfg, inner, weak, entropyDraws>>
    /\ BuildFrame

\* self.keymap.unwrap_or_default()
KeymapOrDefault(optKeymap) == IF optKeymap = None THEN "default" ELSE optKeymap[1]

\* lines 123-130: the RunTime takes Rc::downgrade of the three cells and the dungeon
BuildAssemble ==
    /\ pc = "assemble"
    /\ created' = Append(created, "RunTime")
    /\ weak' = RunTimeObserves
    /\ strong' = RunTimeHolds(strong)
    /\ buildResult' = [ok |-> TRUE, keymap |-> KeymapOrDefault(cfg.keymap)]
    /\ pc' = "done"
    /\ UNCHANGED <<cfg, inner, entropyDraws, passed>>
    /\ BuildFrame

\* the RunTime is dropped: its dungeon field goes with it, and with the
\* dungeon the handles it kept; the Weak fields go too
DropRunTime ==
    /\ pc = "done"
    /\ strong' = [c \in CellNames |-> strong[c] \ {"dungeon", "runtime"}]
    /\ weak' = NoCells
    /\ pc' = "dropped"
    /\ UNCHANGED <<cfg, inner, created, entropyDraws, passed, buildResult>>
    /\ BuildFrame

(***************************************************************************)
(* Operations on one ItemHandler                                           *)
(***************************************************************************)
ItemFrame == UNCHANGED <<buildVars, detVars, serdeVars, coordVars, uiVars>>
Levels == 1..MaxLevel
Paths == 1..MaxPath
CellAnswers == {CellErr} \cup {CellOk(p) : p \in Paths}

ItemInit ==
    /\ \E c \in ItemConfigs, s \in Seeds : handler = ItemHandler_new(c, s)
    /\ issued = <<>>
    /\ lastCall = [op |-> "new", n |-> 0]

\* handler.setup_gold(level, || cell)
SetupGold ==
    /\ lastCall.n < MaxOps
    /\ \E level \in Levels, cell \in CellAnswers :
        LET r == setup_gold(handler, level, cell) IN
        /\ handler' = r.h
        /\ issued' = IF r.gen = None THEN issued ELSE Append(issued, r.gen[1])
        /\ lastCall' = [op |-> "setup_gold", n |-> lastCall.n + 1, level |-> level,
                        cell |-> cell, pre |-> handler, ok |-> r.ok, err |-> r.err,
                        gen |-> r.gen, num |-> r.num, called |-> r.called]
    /\ ItemFrame

\* handler.gen_item(|| item) with a gold item
GenItem ==
    /\ lastCall.n < MaxOps
    /\ \E q \in 1..2 :
        LET r == gen_item(handler, many(numbered("Gold", q))) IN
        /\ handler' = r.h
        /\ issued' = Append(issued, r.id)
        /\ lastCall' = [op |-> "gen_item", n |-> lastCall.n + 1, pre |-> handler,
                        gen |-> Some(r.id)]
    /\ ItemFrame

(***************************************************************************)
(* Two builds of one GameConfig, their ItemHandlers driven alike           *)
(***************************************************************************)
DetFrame == UNCHANGED <<buildVars, itemVars, serdeVars, coordVars, uiVars>>
NotBuilt == [built |-> FALSE]
DetConfigs == [width : {MIN_WIDTH - 1, MIN_WIDTH}, height : {MIN_HEIGHT},
               seed : OptSeeds, dungeon : {DefaultDungeon}, item : ItemConfigs,
               keymap : {None}]

\* build() up to the call of the dungeon builder: the seed to_inner resolved is
\* handed to ItemHandler::new and to DungeonStyle::build
BuildRun(c, drawn) ==
    LET r == to_inner(c, drawn)
    IN  IF ~r.ok
        THEN [built |-> TRUE, ok |-> FALSE, err |-> chain_err(r.err, "[GameConfig::build]")]
        ELSE [built |-> TRUE, ok |-> TRUE, item_seed |-> r.val.seed,
              dungeon_seed |-> r.val.seed,
              handler |-> ItemHandler_new(c.item, r.val.seed), n |-> 0]

DetInit ==
    /\ dcfg \in DetConfigs
    /\ runA = NotBuilt
    /\ runB = NotBuilt

DetBuildA ==
    /\ ~runA.built
    /\ \E drawn \in Seeds : runA' = BuildRun(dcfg, drawn)
    /\ UNCHANGED <<dcfg, runB>>
    /\ DetFrame

DetBuildB ==
    /\ ~runB.built
    /\ \E drawn \in Seeds : runB' = BuildRun(dcfg, drawn)
    /\ UNCHANGED <<dcfg, runA>>
    /\ DetFrame

\* the same setup_gold call on both handlers
DetSetupGold ==
    /\ runA.built /\ runB.built
    /\ runA.ok /\ runB.ok
    /\ runA.n < MaxOps
    /\ \E level \in Levels, cell \in CellAnswers :
        /\ runA' = [runA EXCEPT !.handler = setup_gold(@, level, cell).h, !.n = @ + 1]
        /\ runB' = [runB EXCEPT !.handler = setup_gold(@, level, cell).h, !.n = @ + 1]
    /\ UNCHANGED dcfg
    /\ DetFrame

(***************************************************************************)
(* serde_json round trip of GameConfig: lib.rs 48-65 (derive Serialize,    *)
(* Deserialize; flatten on dungeon; skip_serializing_if on keymap)         *)
(***************************************************************************)
SerdeFrame == UNCHANGED <<buildVars, itemVars, detVars, coordVars, uiVars>>
NoDoc == <<>>
JNull == [t |-> "null"]
JVal(v) == [t |-> "val", v |-> v]
OwnFields == {"width", "height", "seed", "item", "keymap"}

\* an Option field: None is written as null
OptionJson(o) == IF o = None THEN JNull ELSE JVal(o[1])
\* an Option field read back: null (or no field) is None
OptionFromJson(j, field) ==
    IF field \notin DOMAIN j THEN None
    ELSE IF j[field] = JNull THEN None ELSE Some(j[field].v)

\* #[serde(skip_serializing_if = "Option::is_none")] keymap
KeymapJson(optKeymap) ==
    IF optKeymap = None THEN <<>> ELSE "keymap" :> OptionJson(optKeymap)

\* a faulty variant of KeymapFromJson: an absent keymap reads as the default keymap
KeymapFromJson_default(j) ==
    IF "keymap" \notin DOMAIN j THEN Some("default") ELSE OptionFromJson(j, "keymap")

\* keymap: Option<KeyMap> read back; an absent field is None
KeymapFromJson(j) == OptionFromJson(j, "keymap")

\* serde_json::to_string(&GameConfig): the document as field name -> value
Serialize(c) ==
    ("width" :> JVal(c.width)) @@ ("height" :> JVal(c.height))
    @@ ("seed" :> OptionJson(c.seed))
    @@ [k \in DOMAIN c.dungeon |-> JVal(c.dungeon[k])]
    @@ ("item" :> JVal(c.item))
    @@ KeymapJson(c.keymap)

\* serde_json::from_str::<GameConfig>: the flattened dungeon takes the fields
\* that are not GameConfig's own
Deserialize(j) ==
    [width |-> j["width"].v, height |-> j["height"].v,
     seed |-> OptionFromJson(j, "seed"),
     dungeon |-> [k \in DOMAIN j \ OwnFields |-> j[k].v],
     item |-> j["item"].v,
     keymap |-> KeymapFromJson(j)]

ValidConfigs == {c \in GameConfigs : validate(c.width, c.height) = None}

SerdeInit ==
    /\ sc \in ValidConfigs
    /\ json = NoDoc
    /\ back = NoResult

SerdeSerialize ==
    /\ json = NoDoc
    /\ json' = Serialize(sc)
    /\ UNCHANGED <<sc, back>>
    /\ SerdeFrame

SerdeDeserialize ==
    /\ json # NoDoc
    /\ back = NoResult
    /\ back' = [ok |-> TRUE, val |-> Deserialize(json)]
    /\ UNCHANGED <<sc, json>>
    /\ SerdeFrame

(***************************************************************************)
(* Coord, Direction and DirectionIterEndless: dungeon/coord.rs             *)
(***************************************************************************)
CoordFrame == UNCHANGED <<buildVars, itemVars, detVars, serdeVars, uiVars>>
I32Max == 2147483647
I32Min == (0 - I32Max) - 1
\* whether the i32 sum a + b leaves the i32 range
AddOverflows(a, b) == (b > 0 /\ a > I32Max - b) \/ (b < 0 /\ a < I32Min - b)
\* the two's complement wrap-around of the i32 sum a + b
WrapAdd(a, b) ==
    IF b > 0 /\ a > I32Max - b THEN I32Min + ((b - 1) - (I32Max - a))
    ELSE IF b < 0 /\ a < I32Min - b THEN I32Max + ((b + 1) + (a - I32Min))
    ELSE a + b

Coord_new(x, y) == [x |-> x, y |-> y]
Directions == {"Up", "Down", "Left", "Right", "LeftUp", "RightUp", "LeftDown",
               "RightDown", "Stay"}

\* Direction::to_cd
to_cd(d) ==
    CASE d = "Up" -> Coord_new(0, -1)
      [] d = "Down" -> Coord_new(0, 1)
      [] d = "Left" -> Coord_new(-1, 0)
      [] d = "Right" -> Coord_new(1, 0)
      [] d = "LeftUp" -> Coord_new(-1, -1)
      [] d = "RightUp" -> Coord_new(1, -1)
      [] d = "LeftDown" -> Coord_new(-1, 1)
      [] d = "RightDown" -> Coord_new(1, 1)
      [] d = "Stay" -> Coord_new(0, 0)

\* whether self.cur += self.dir.to_cd() overflows in x or in y
StepOverflows(c, d) == AddOverflows(c.x, to_cd(d).x) \/ AddOverflows(c.y, to_cd(d).y)
\* a faulty variant of StepSum: the delta is subtracted
StepSum_back(c, d) == Coord_new(WrapAdd(c.x, 0 - to_cd(d).x), WrapAdd(c.y, 0 - to_cd(d).y))

\* the value of self.cur after self.cur += self.dir.to_cd(), wrapping
StepSum(c, d) == Coord_new(WrapAdd(c.x, to_cd(d).x), WrapAdd(c.y, to_cd(d).y))

StartCoords == [x : {I32Min, 0 - 1, 0, 5, I32Max - 1, I32Max}, y : {I32Min, 0, I32Max}]

\* Coord::endless_iter: DirectionIterEndless { cur: self, dir }
CoordInit ==
    /\ start \in StartCoords
    /\ dir \in Directions
    /\ cur = start
    /\ produced = <<>>
    /\ iterState = "running"

\* DirectionIterEndless::next, the sum in range
IterNext ==
    /\ iterState = "running"
    /\ Len(produced) < MaxSteps
    /\ ~StepOverflows(cur, dir)
    /\ produced' = Append(produced, cur)
    /\ cur' = StepSum(cur, dir)
    /\ UNCHANGED <<start, dir, iterState>>
    /\ CoordFrame

\* next when the i32 sum overflows, overflow checks off: the sum wraps
IterNextWrap ==
    /\ iterState = "running"
    /\ Len(produced) < MaxSteps
    /\ StepOverflows(cur, dir)
    /\ produced' = Append(produced, cur)
    /\ cur' = StepSum(cur, dir)
    /\ UNCHANGED <<start, dir, iterState>>
    /\ CoordFrame

\* next when the i32 sum overflows, overflow checks on: the += panics before
\* the element is returned
IterNextPanic ==
    /\ iterState = "running"
    /\ Len(produced) < MaxSteps
    /\ StepOverflows(cur, dir)
    /\ iterState' = "panicked"
    /\ UNCHANGED <<start, dir, cur, produced>>
    /\ CoordFrame

(***************************************************************************)
(* devui: play_game and process_reaction (devui/src/lib.rs)                *)
(***************************************************************************)
UiFrame == UNCHANGED <<buildVars, itemVars, detVars, serdeVars, coordVars>>

\* Reaction values: Notify(GameMsg), Redraw, StatusUpdated, UiTransition(UiState)
NotifyMsgs == {"CantMove", "CantGetItem", "NoDownStair", "GotItem", "SecretDoor", "Quit"}
Reactions ==
    {[r |-> "Notify", msg |-> m] : m \in NotifyMsgs}
    \cup {[r |-> "Redraw"], [r |-> "StatusUpdated"],
          [r |-> "UiTransition", ui |-> "MordalQuit"],
          [r |-> "UiTransition", ui |-> "Other"]}
NotifyQuit == [r |-> "Notify", msg |-> "Quit"]
ReactionLists == UNION {[1..n -> Reactions] : n \in 0..MaxReactions}
\* what runtime.react_to_key returns: an error or a list of reactions
RuntimeErrors == {"Input", "IncompleteInput"}
\* where draw_dungeon finds the player: nowhere, or at a coordinate
PlayerPositions == {None, Some([x |-> 5, y |-> 5])}

Exit == [t |-> "Exit"]
PlayerCursor(cd) == [t |-> "PlayerCursor", cd |-> cd]

\* the text notify! puts on the screen for a GameMsg; None for CantMove
NotifyText(msg) ==
    CASE msg = "CantMove" -> None
      [] msg = "CantGetItem" -> Some("You walk onto")
      [] msg = "NoDownStair" -> Some("Hmm... there seems to be no downstair")
      [] msg = "GotItem" -> Some("Now you have")
      [] msg = "SecretDoor" -> Some("you found a secret door")
      [] msg = "Quit" -> Some("Thank you for playing!")

\* a faulty variant of NotifyTransition: Quit is treated like the other messages
NotifyTransition_none(msg) == None

\* the transition process_reaction returns for a Notify once the message is shown
NotifyTransition(msg) == IF msg = "Quit" THEN Some(Exit) ELSE None

\* process_reaction(screen, runtime, reaction): [ok, transition, shown];
\* screenOk says whether the screen call it makes succeeds, pos is what
\* draw_dungeon finds
process_reaction(reaction, screenOk, pos) ==
    CASE reaction.r = "Notify" ->
            IF NotifyText(reaction.msg) = None
            THEN [ok |-> TRUE, transition |-> None, shown |-> None]
            ELSE IF ~screenOk
            THEN [ok |-> FALSE, transition |-> None, shown |-> None]
            ELSE [ok |-> TRUE, transition |-> NotifyTransition(reaction.msg),
                  shown |-> NotifyText(reaction.msg)]
      [] reaction.r = "Redraw" ->
            IF ~screenOk
            THEN [ok |-> FALSE, transition |-> None, shown |-> None]
            ELSE [ok |-> TRUE,
                  transition |-> IF pos = None THEN None ELSE Some(PlayerCursor(pos[1])),
                  shown |-> None]
      [] reaction.r = "StatusUpdated" ->
            [ok |-> screenOk, transition |-> None, shown |-> None]
      [] reaction.r = "UiTransition" ->
            IF reaction.ui # "MordalQuit"
            THEN [ok |-> TRUE, transition |-> None, shown |-> None]
            ELSE IF ~screenOk
            THEN [ok |-> FALSE, transition |-> None, shown |-> None]
            ELSE [ok |-> TRUE, transition |-> None,
                  shown |-> Some("You really quit game?(y/n)")]

\* a faulty variant of OnRuntimeError: the runtime's error is returned from play_game
OnRuntimeError_return(notifyOk) == "exit_err"

\* lines 48-52: Err(e) => { notify!(screen, "{}", e)?; continue; }
OnRuntimeError(notifyOk) == IF notifyOk THEN "running" ELSE "exit_err"

\* the state on entry to the loop of play_game (line 38)
UiInit ==
    /\ uiState = "running"
    /\ exitCause = "none"
    /\ keysRead = 0
    /\ keysPassed = 0
    /\ lastEvent = "start"
    /\ turn = <<>>
    /\ turnLog = <<>>
    /\ player_cursor = None
    /\ shown = None
    /\ errTurns = 0

TurnOver == Len(turnLog) = Len(turn)

\* lines 39-40: the next event arrives and screen.clear_notification() fails
UiClearFails ==
    /\ uiState = "running" /\ TurnOver
    /\ keysRead < MaxKeys
    /\ keysRead' = keysRead + 1
    /\ uiState' = "exit_err"
    /\ exitCause' = "clear_notification"
    /\ shown' = None
    /\ UNCHANGED <<keysPassed, lastEvent, turn, turnLog, player_cursor, errTurns>>
    /\ UiFrame

\* lines 39-44: the next event is a read error: keys.into_chained(..)? returns
UiKeyFails ==
    /\ uiState = "running" /\ TurnOver
    /\ keysRead < MaxKeys
    /\ keysRead' = keysRead + 1
    /\ shown' = None
    /\ lastEvent' = "key_err"
    /\ uiState' = "exit_err"
    /\ exitCause' = "key"
    /\ turn' = <<>> /\ turnLog' = <<>>
    /\ UNCHANGED <<keysPassed, player_cursor, errTurns>>
    /\ UiFrame

\* lines 39-52: the next event is a key and runtime.react_to_key returns Err
UiKeyRejected ==
    /\ uiState = "running" /\ TurnOver
    /\ keysRead < MaxKeys
    /\ \E e \in RuntimeErrors, notifyOk \in BOOLEAN :
        /\ keysRead' = keysRead + 1
        /\ keysPassed' = keysPassed + 1
        /\ lastEvent' = "input_err"
        /\ errTurns' = errTurns + 1
        /\ turn' = <<>> /\ turnLog' = <<>>
        /\ shown' = IF notifyOk THEN Some(e) ELSE None
        /\ uiState' = OnRuntimeError(notifyOk)
        /\ exitCause' = IF OnRuntimeError(notifyOk) = "running" THEN "none" ELSE "notify"
    /\ UNCHANGED player_cursor
    /\ UiFrame

\* lines 39-47: the next event is a key and runtime.react_to_key returns Ok(r)
UiKeyAccepted ==
    /\ uiState = "running" /\ TurnOver
    /\ keysRead < MaxKeys
    /\ \E r \in ReactionLists :
        /\ turn' = r
        /\ turnLog' = <<>>
    /\ keysRead' = keysRead + 1
    /\ keysPassed' = keysPassed + 1
    /\ lastEvent' = "ok"
    /\ shown' = None
    /\ UNCHANGED <<uiState, exitCause, player_cursor, errTurns>>
    /\ UiFrame

\* lines 55-64: one pass of `for reaction in res`
UiProcessReaction ==
    /\ uiState = "running" /\ ~TurnOver
    /\ \E screenOk \in BOOLEAN, pos \in PlayerPositions :
        LET reaction == turn[Len(turnLog) + 1]
            res == process_reaction(reaction, screenOk, pos)
        IN  /\ turnLog' = Append(turnLog, reaction)
            /\ shown' = IF res.shown = None THEN shown ELSE res.shown
            /\ IF ~res.ok
               THEN /\ uiState' = "exit_err"
                    /\ exitCause' = "process_reaction"
                    /\ UNCHANGED player_cursor
               ELSE IF res.transition = Some(Exit)
               THEN /\ uiState' = "exit_ok"
                    /\ exitCause' = "quit"
                    /\ UNCHANGED player_cursor
               ELSE /\ UNCHANGED <<uiState, exitCause>>
                    /\ player_cursor' = IF res.transition = None THEN player_cursor
                                        ELSE Some(res.transition[1].cd)
    /\ UNCHANGED <<keysRead, keysPassed, lastEvent, turn, errTurns>>
    /\ UiFrame

\* lines 39 and 67: stdin.keys() ends, play_game returns Ok(())
UiEndOfInput ==
    /\ uiState = "running" /\ TurnOver
    /\ uiState' = "exit_ok"
    /\ exitCause' = "eof"
    /\ UNCHANGED <<keysRead, keysPassed, lastEvent, turn, turnLog, player_cursor,
                   shown, errTurns>>
    /\ UiFrame

(***************************************************************************)
(* The specifications                                                      *)
(***************************************************************************)
BuildIdle ==
    /\ cfg = DefaultConfig
    /\ pc = "idle"
    /\ inner = NoResult
    /\ created = <<>>
    /\ strong = NoCells
    /\ weak = NoCells
    /\ entropyDraws = 0
    /\ passed = [item |-> None, dungeon |-> None]
    /\ buildResult = NoResult
ItemIdle ==
    /\ handler = ItemHandler_new(DefaultItemConfig, 0)
    /\ issued = <<>>
    /\ lastCall = [op |-> "new", n |-> MaxOps]
DetIdle ==
    /\ dcfg = DefaultConfig
    /\ runA = [built |-> TRUE, ok |-> FALSE]
    /\ runB = [built |-> TRUE, ok |-> FALSE]
SerdeIdle ==
    /\ sc = DefaultConfig
    /\ json = NoDoc
    /\ back = [ok |-> FALSE, idle |-> TRUE]
CoordIdle ==
    /\ start = Coord_new(0, 0)
    /\ dir = "Stay"
    /\ cur = Coord_new(0, 0)
    /\ produced = <<>>
    /\ iterState = "idle"

UiIdle ==
    /\ uiState = "idle"
    /\ exitCause = "none"
    /\ keysRead = 0
    /\ keysPassed = 0
    /\ lastEvent = "start"
    /\ turn = <<>>
    /\ turnLog = <<>>
    /\ player_cursor = None
    /\ shown = None
    /\ errTurns = 0

\* GameConfig::build
Init == BuildInit /\ ItemIdle /\ DetIdle /\ SerdeIdle /\ CoordIdle /\ UiIdle
Next ==
    \/ BuildNewInfo \/ BuildToInner \/ BuildNewItem \/ BuildDungeon \/ BuildAssemble
    \/ DropRunTime
Spec == Init /\ [][Next]_vars

\* one ItemHandler
InitItem == BuildIdle /\ ItemInit /\ DetIdle /\ SerdeIdle /\ CoordIdle /\ UiIdle
NextItem == SetupGold \/ GenItem
SpecItem == InitItem /\ [][NextItem]_vars

\* two builds of one GameConfig
InitDet == BuildIdle /\ ItemIdle /\ DetInit /\ SerdeIdle /\ CoordIdle /\ UiIdle
NextDet == DetBuildA \/ DetBuildB \/ DetSetupGold
SpecDet == InitDet /\ [][NextDet]_vars

\* serialize, then deserialize
InitSerde == BuildIdle /\ ItemIdle /\ DetIdle /\ SerdeInit /\ CoordIdle /\ UiIdle
NextSerde == SerdeSerialize \/ SerdeDeserialize
SpecSerde == InitSerde /\ [][NextSerde]_vars

\* one session of play_game
InitUi == BuildIdle /\ ItemIdle /\ DetIdle /\ SerdeIdle /\ CoordIdle /\ UiInit
NextUi ==
    \/ UiClearFails \/ UiKeyFails \/ UiKeyRejected \/ UiKeyAccepted
    \/ UiProcessReaction \/ UiEndOfInput
SpecUi == InitUi /\ [][NextUi]_vars

\* one DirectionIterEndless
InitCoord == BuildIdle /\ ItemIdle /\ DetIdle /\ SerdeIdle /\ CoordInit /\ UiIdle
NextCoord == IterNext \/ IterNextWrap \/ IterNextPanic
SpecCoord == InitCoord /\ [][NextCoord]_vars

(***************************************************************************)
(* Properties of validation and build                                      *)
(***************************************************************************)
ToInnerReturned == pc \in {"new_item", "dungeon", "assemble", "done", "failed"}
ToInnerFailed == pc = "failed" /\ "err" \in DOMAIN inner
\* the last two words of an error's message
Reason(e) == SubSeq(e.msg, Len(e.msg) - 1, Len(e.msg))

\* C1: validation fails with an InvalidSetting error exactly when width < 80,
\* width > 160, height < 24 or height > 48, and build fails with it; otherwise
\* it yields a ConfigInner with the same width and height.
C1_BoundsDecideValidation ==
    ToInnerReturned =>
        LET out == cfg.width < 80 \/ cfg.width > 160 \/ cfg.height < 24 \/ cfg.height > 48
        IN  /\ out => /\ "err" \in DOMAIN inner
                      /\ inner.err.kind = "InvalidSetting"
                      /\ pc = "failed"
                      /\ buildResult.ok = FALSE
                      /\ buildResult.err.kind = "InvalidSetting"
            /\ ~out => /\ inner.ok
                       /\ inner.val.width = cfg.width
                       /\ inner.val.height = cfg.height

\* C1 witness: the largest width and height pass validation
C1_Witness ==
    /\ pc = "new_item"
    /\ cfg.width = 160 /\ cfg.height = 48
    /\ inner.ok /\ inner.val.width = 160 /\ inner.val.height = 48

\* the reason C2 expects for a width and height, the first violation deciding
ClaimedReason(w, h) ==
    IF w < 80 THEN <<"too", "narrow">>
    ELSE IF w > 160 THEN <<"too", "wide">>
    ELSE IF h < 24 THEN <<"too", "short">>
    ELSE <<"too", "tall">>

\* C2: the checks run width-too-small, width-too-large, height-too-small,
\* height-too-large, the first violation is the one reported, and its reason
\* is "too narrow", "too wide", "too short", "too tall" respectively.
C2_FirstViolationReason ==
    ToInnerFailed => Reason(inner.err) = ClaimedReason(cfg.width, cfg.height)

\* C3: when build fails on a width below 80 the reason is "too narrow", and
\* at that moment no component has been constructed and no value has been
\* drawn from the entropy source.
C3_NothingBeforeValidation ==
    (ToInnerFailed /\ cfg.width < 80) =>
        /\ Reason(inner.err) = <<"too", "narrow">>
        /\ created = <<>>
        /\ entropyDraws = 0

C5_IdsStrictlyIncreasing ==
    /\ \A i \in 1..Len(issued) : issued[i] = i - 1
    /\ \A i, j \in 1..Len(issued) : i < j => issued[i] < issued[j]
    /\ DOMAIN handler.items = {issued[i] : i \in 1..Len(issued)}
    /\ Cardinality(DOMAIN handler.items) = Len(issued)
    /\ handler.next_id = Len(issued)

\* C5 witness: three ids issued, the last by a setup_gold call that failed
C5_Witness ==
    /\ Len(issued) >= 3
    /\ lastCall.op = "setup_gold"
    /\ lastCall.ok = FALSE
    /\ lastCall.gen = Some(Len(issued) - 1)

\* C6: every path of the placement index maps to an id of the registry, and
\* get_ref(path) returns an item exactly when the path is in the index.
C6_PlacedItemsAreRegistered ==
    /\ \A p \in DOMAIN handler.placed_items :
           handler.placed_items[p] \in DOMAIN handler.items
    /\ \A p \in Paths : (get_ref(handler, p) # None) <=> (p \in DOMAIN handler.placed_items)

\* C6 witness: setup_gold placed an item on a path that was occupied
C6_Witness ==
    /\ lastCall.op = "setup_gold"
    /\ lastCall.ok
    /\ lastCall.gen # None
    /\ lastCall.cell.val \in DOMAIN lastCall.pre.placed_items
    /\ get_ref(handler, lastCall.cell.val) # None

\* C7: when setup_gold decides to spawn and empty_cell fails, the call returns
\* the error with the setup_gold context, and the registry, the placement
\* index and the next id are as before the call.
C7_FailedSupplierLeavesNoTrace ==
    (lastCall.op = "setup_gold" /\ lastCall.called /\ ~lastCall.cell.ok) =>
        /\ lastCall.ok = FALSE
        /\ lastCall.err[1].context = <<"ItemHandler::setup_gold">>
        /\ handler.items = lastCall.pre.items
        /\ handler.placed_items = lastCall.pre.placed_items
        /\ handler.next_id = lastCall.pre.next_id

\* C8: when the policy spawns quantity n and empty_cell returns path p,
\* setup_gold returns Ok, the registry has one more entry, and get_ref(p) is
\* a Gold item of quantity n whose only attribute flag is IS_MANY.
C8_SpawnedGoldIsPlaced ==
    (lastCall.op = "setup_gold" /\ lastCall.num # None /\ lastCall.cell.ok) =>
        /\ lastCall.ok
        /\ Cardinality(DOMAIN handler.items) = Cardinality(DOMAIN lastCall.pre.items) + 1
        /\ get_ref(handler, lastCall.cell.val) =
               Some([kind |-> "Gold", how_many |-> lastCall.num[1], attr |-> {"IS_MANY"}])

\* C8 witness: setup_gold(level 1) spawned gold and placed it
C8_Witness ==
    /\ lastCall.op = "setup_gold"
    /\ lastCall.level = 1
    /\ lastCall.num # None
    /\ lastCall.cell.ok
    /\ get_ref(handler, lastCall.cell.val) # None

(***************************************************************************)
(* Properties of the serde round trip                                      *)
(***************************************************************************)
\* C9: deserialize(serialize(c)) = c for every valid GameConfig c; without a
\* keymap the document has no keymap field and reads back as keymap None,
\* with keymap Some(k) it reads back as Some(k).
C9_RoundTrip ==
    back.ok =>
        /\ back.val = sc
        /\ sc.keymap = None => ("keymap" \notin DOMAIN json /\ back.val.keymap = None)
        /\ sc.keymap # None => ("keymap" \in DOMAIN json /\ back.val.keymap = sc.keymap)

\* C9 witness: a config without a keymap has been serialized and read back
C9_Witness ==
    /\ back.ok
    /\ sc.keymap = None
    /\ "keymap" \notin DOMAIN json
    /\ back.val.keymap = None

(***************************************************************************)
(* Properties of DirectionIterEndless                                      *)
(***************************************************************************)
\* the unit delta of each direction: diagonals have both components +-1, Stay is zero
Delta(d) ==
    CASE d = "Up" -> Coord_new(0, -1)
      [] d = "Down" -> Coord_new(0, 1)
      [] d = "Left" -> Coord_new(-1, 0)
      [] d = "Right" -> Coord_new(1, 0)
      [] d = "LeftUp" -> Coord_new(-1, -1)
      [] d = "RightUp" -> Coord_new(1, -1)
      [] d = "LeftDown" -> Coord_new(-1, 1)
      [] d = "RightDown" -> Coord_new(1, 1)
      [] d = "Stay" -> Coord_new(0, 0)

\* s + k * delta(d) is a coordinate of i32 components
SumInRange(s, k, d) ==
    ~AddOverflows(s.x, k * Delta(d).x) /\ ~AddOverflows(s.y, k * Delta(d).y)
\* the coordinate c is the integer sum s + k * delta(d)
IsSum(c, s, k, d) ==
    /\ SumInRange(s, k, d)
    /\ c = Coord_new(s.x + k * Delta(d).x, s.y + k * Delta(d).y)

\* C10 as stated: for every start s, direction d and N >= 0 the N-th element is
\* s + N * delta(d), and the sequence never ends.
C10_NthElement ==
    /\ iterState # "panicked"
    /\ \A n \in 1..Len(produced) : IsSum(produced[n], start, n - 1, dir)

\* C10 amended: the N-th element is s + N * delta(d) whenever s + (N+1) * delta(d)
\* is within the i32 range; next() stops (by a panic) only when the sum it
\* computes leaves that range; for Stay every element is s and next() never stops.
C10_NthElementInRange ==
    /\ \A n \in 1..Len(produced) :
           SumInRange(start, n, dir) => IsSum(produced[n], start, n - 1, dir)
    /\ iterState = "panicked" => ~SumInRange(start, Len(produced) + 1, dir)
    /\ dir = "Stay" => /\ iterState # "panicked"
                       /\ \A n \in 1..Len(produced) : produced[n] = start

\* C10 witness: three elements produced along a diagonal, all in range
C10_Witness ==
    /\ Len(produced) = 3
    /\ dir = "RightUp"
    /\ start = Coord_new(5, 0)
    /\ produced[3] = Coord_new(7, 0 - 2)

(***************************************************************************)
(* setup_gold when the policy declines                                     *)
(***************************************************************************)
\* C13: when the gold policy declines to spawn, setup_gold returns Ok, does
\* not call empty_cell, and leaves the registry, the placement index and the
\* next id as they were.
C13_DeclineIsNoOp ==
    (lastCall.op = "setup_gold" /\ lastCall.num = None) =>
        /\ lastCall.ok
        /\ lastCall.err = None
        /\ ~lastCall.called
        /\ lastCall.gen = None
        /\ handler.items = lastCall.pre.items
        /\ handler.placed_items = lastCall.pre.placed_items
        /\ handler.next_id = lastCall.pre.next_id

\* C13 witness: the policy declined on a handler that holds a placed item,
\* with an empty_cell that would have failed
C13_Witness ==
    /\ lastCall.op = "setup_gold"
    /\ lastCall.num = None
    /\ ~lastCall.cell.ok
    /\ lastCall.pre.placed_items # <<>>
    /\ handler.items = lastCall.pre.items

(***************************************************************************)
(* Ownership of the cells after build                                      *)
(***************************************************************************)
\* the position of a component in the order of construction, 0 when absent
CreatedAt(name) ==
    IF \E i \in 1..Len(created) : created[i] = name
    THEN CHOOSE i \in 1..Len(created) : created[i] = name
    ELSE 0
\* a Weak handle resolves while some strong reference is left
Resolves(c) == strong[c] # {}

\* C14: after build returns Ok the RunTime holds only Weak handles to the
\* GameInfo, ConfigInner and ItemHandler cells, the three cells were created
\* before the dungeon builder was invoked, every handle resolves while the
\* RunTime is alive, and the dungeon is the only strong holder.
C14_RunTimeObservesOnly ==
    /\ pc = "done" =>
        /\ buildResult.ok
        /\ \A c \in CellNames :
            /\ "runtime" \notin strong[c]
            /\ weak[c] = {"runtime"}
            /\ Resolves(c)
            /\ strong[c] = {"dungeon"}
        /\ \A n \in {"GameInfo", "ConfigInner", "ItemHandler"} :
            0 < CreatedAt(n) /\ CreatedAt(n) < CreatedAt("Dungeon")
    /\ pc \in {"assemble", "done"} =>
        \A c \in CellNames : "dungeon" \in strong[c]

\* C14 witness: build has returned Ok and the RunTime is alive
C14_Witness ==
    /\ pc = "done"
    /\ buildResult.ok
    /\ created = <<"GameInfo", "ConfigInner", "ItemHandler", "Dungeon", "RunTime">>
    /\ \A c \in CellNames : weak[c] = {"runtime"} /\ strong[c] = {"dungeon"}

(***************************************************************************)
(* Properties of play_game                                                 *)
(***************************************************************************)
Exited == uiState \in {"exit_ok", "exit_err"}
QuitMet == \E i \in 1..Len(turnLog) : turnLog[i] = NotifyQuit

\* C11: the reactions of a turn are processed in order; once Notify(Quit) is
\* met the session has ended, Quit is the last reaction processed (the ones
\* before it were processed, none after it), the message was presented when
\* play_game returns Ok, and no event was read beyond the keys passed on.
C11_QuitEndsSession ==
    /\ Len(turnLog) <= Len(turn)
    /\ turnLog = SubSeq(turn, 1, Len(turnLog))
    /\ QuitMet =>
        /\ Exited
        /\ turnLog[Len(turnLog)] = NotifyQuit
        /\ \A i \in 1..(Len(turnLog) - 1) : turnLog[i] # NotifyQuit
        /\ uiState = "exit_ok" =>
            /\ exitCause = "quit"
            /\ shown = Some("Thank you for playing!")
        /\ uiState = "exit_err" => exitCause = "process_reaction"
        /\ keysRead = keysPassed
    /\ exitCause = "quit" => QuitMet

\* C11 witness: Quit came first in a turn of two reactions, in a later turn
C11_Witness ==
    /\ uiState = "exit_ok"
    /\ exitCause = "quit"
    /\ keysRead >= 2
    /\ Len(turn) = 2
    /\ turn[2] = [r |-> "Redraw"]
    /\ turnLog = <<NotifyQuit>>

\* C12: when the runtime returns an error for a key, no reaction is processed
\* for that turn, and with the notification on the screen the session goes
\* on (it is running, ready for the next event, unless the input has ended);
\* play_game ends only on Quit, on the end of the input, or on a failure of a
\* screen call or of reading a key.
C12_InputErrorContinues ==
    /\ lastEvent = "input_err" =>
        /\ turn = <<>> /\ turnLog = <<>>
        /\ (shown # None /\ shown[1] \in RuntimeErrors) =>
            \/ uiState = "running" /\ exitCause = "none"
            \/ uiState = "exit_ok" /\ exitCause = "eof"
        /\ shown = None =>
            /\ uiState = "exit_err"
            /\ exitCause \in {"notify", "clear_notification"}
    /\ Exited <=> exitCause # "none"
    /\ Exited => exitCause \in {"quit", "eof", "clear_notification", "key", "notify",
                                "process_reaction"}
    /\ keysPassed <= keysRead

\* C12 witness: after a turn the runtime rejected, a later key's reaction is processed
C12_Witness ==
    /\ errTurns >= 1
    /\ lastEvent = "ok"
    /\ uiState = "running"
    /\ Len(turnLog) >= 1
    /\ keysPassed >= 2

====
